---- MODULE Spec2Model ----
(***************************************************************************)
(* Student Management System (console): the in-memory list `students`,     *)
(* the data file data.json, and the menu loop of main().                    *)
(*                                                                         *)
(* A Python str is a sequence of one-character strings; a dict is a        *)
(* function from its keys to its values; a list is a sequence.  A list     *)
(* element that is a str (loaded from a file that holds one) is            *)
(* [pystr |-> chars], so that it is told apart from a dict by its keys.    *)
(* The content of data.json is a JSON document (or text that is none, or   *)
(* no file at all): json.dump and json.load convert between the two.       *)
(***************************************************************************)
EXTENDS Integers, Sequences, FiniteSets, TLC

VARIABLES
    students,   \* the module-level list of student dicts
    file,       \* the content of DATA_FILE
    pc,         \* where main() is: "start", "menu", "pause", "done", "crashed"
    last,       \* what the last step did (history, for stating the properties)
    failures    \* how many writes of the file have failed since the last that succeeded

vars == <<students, file, pc, last, failures>>

\* ---- Bounds ---------------------------------------------------------------
\* The longest list an add still appends to.
MaxStudents == 2
\* How many writes of the data file may fail in a row.
MaxFailures == 1

\* ---- Strings ---------------------------------------------------------------
Whitespace == {" "}

\* What input() does at end of input, and when the user interrupts.
EOF == <<"^D">>
INTR == <<"^C">>
Raises(reply) == reply \in {EOF, INTR}

RECURSIVE LStrip(_)
LStrip(s) ==
    IF s = <<>> THEN s
    ELSE IF Head(s) \in Whitespace THEN LStrip(Tail(s)) ELSE s

RECURSIVE RStrip(_)
RStrip(s) ==
    IF s = <<>> THEN s
    ELSE IF s[Len(s)] \in Whitespace THEN RStrip(SubSeq(s, 1, Len(s) - 1)) ELSE s

\* str.strip()
Strip(s) == RStrip(LStrip(s))

UpperChar(c) ==
    CASE c = "a" -> "A"
      [] c = "b" -> "B"
      [] c = "n" -> "N"
      [] c = "y" -> "Y"
      [] OTHER -> c

LowerChar(c) ==
    CASE c = "A" -> "a"
      [] c = "B" -> "b"
      [] c = "N" -> "n"
      [] c = "Y" -> "y"
      [] OTHER -> c

\* str.upper() and str.lower()
Upper(s) == [i \in 1..Len(s) |-> UpperChar(s[i])]
Lower(s) == [i \in 1..Len(s) |-> LowerChar(s[i])]

\* input(...).strip(): the reply, trimmed; EOFError and KeyboardInterrupt
\* pass through as themselves.
Input(reply) == IF Raises(reply) THEN reply ELSE Strip(reply)

\* ---- JSON documents ---------------------------------------------------------
JString(s) == [t |-> "string", v |-> s]
JArray(items) == [t |-> "array", v |-> items]
\* members: a sequence of <<key, value>> pairs, in the order written
JObject(members) == [t |-> "object", v |-> members]
\* text that json.load cannot parse: empty, truncated or corrupted
Garbage == [t |-> "garbage", v |-> <<>>]
\* os.path.exists(DATA_FILE) is false
Missing == [t |-> "missing", v |-> <<>>]

\* The order in which add_student creates a dict's keys.
KeyOrder == <<"roll_no", "name", "grade", "age">>

Keys(d) == DOMAIN d
IsStr(x) == Keys(x) = {"pystr"}

\* The members json.dump writes for a dict: one per key the dict has.
RECURSIVE Members(_, _)
Members(d, ks) ==
    IF ks = <<>> THEN <<>>
    ELSE IF Head(ks) \in Keys(d)
         THEN <<<<Head(ks), JString(d[Head(ks)])>>>> \o Members(d, Tail(ks))
         ELSE Members(d, Tail(ks))

\* json.dump of one list element
ToJSON(x) == IF IsStr(x) THEN JString(x.pystr) ELSE JObject(Members(x, KeyOrder))

\* json.dump(students, f, indent=2, ensure_ascii=False)
Dump(sts) == JArray([i \in 1..Len(sts) |-> ToJSON(sts[i])])

\* The value json.load gives a key: that of the last member with the key.
RECURSIVE Lookup(_, _, _)
Lookup(members, k, i) ==
    IF members[i][1] = k THEN members[i][2].v ELSE Lookup(members, k, i - 1)

\* json.load of one array element
FromJSON(j) ==
    IF j.t = "object"
    THEN [k \in {j.v[i][1] : i \in 1..Len(j.v)} |-> Lookup(j.v, k, Len(j.v))]
    ELSE [pystr |-> j.v]

\* load_data(): the list main() starts from.  readable: open() and read()
\* raise no OSError.
load_data(f, readable) ==
    IF f.t = "missing" THEN <<>>
    ELSE IF ~readable \/ f.t = "garbage" THEN <<>>
    ELSE IF f.t = "array" THEN [i \in 1..Len(f.v) |-> FromJSON(f.v[i])]
    ELSE <<>>

\* save_data(): what the file holds afterwards.  The write succeeds ("ok"),
\* or open() fails and the file is left as it was ("open_failed"), or the
\* write fails after open() truncated the file ("write_failed").
WriteOutcomes == {"ok", "open_failed", "write_failed"}
save_data(f, sts, w) ==
    CASE w = "ok" -> Dump(sts)
      [] w = "open_failed" -> f
      [] w = "write_failed" -> Garbage

\* ---- The record store -----------------------------------------------------
\* search_by_roll(roll_no): the position of the first element whose roll_no
\* is roll_no (0: None).  s["roll_no"] raises for an element that has no
\* such key (KeyError) or is no dict (TypeError).
RECURSIVE ScanFrom(_, _, _)
ScanFrom(sts, roll_no, i) ==
    IF i > Len(sts) THEN [raised |-> FALSE, at |-> 0]
    ELSE IF "roll_no" \notin Keys(sts[i]) THEN [raised |-> TRUE, at |-> 0]
    ELSE IF sts[i].roll_no = roll_no THEN [raised |-> FALSE, at |-> i]
    ELSE ScanFrom(sts, roll_no, i + 1)

\* Variant: the scan starts at the second element.
search_from_second(sts, roll_no) == ScanFrom(sts, roll_no, 2)

search_by_roll(sts, roll_no) == ScanFrom(sts, roll_no, 1)

\* validate_grade(g)
validate_grade(g) == g # <<>>

\* d[k] = v on a dict
SetKey(d, k, v) == [x \in Keys(d) \cup {k} |-> IF x = k THEN v ELSE d[x]]

\* Variant: the last element is removed, whichever was asked for.
RemoveLast(sts, x) == SubSeq(sts, 1, Len(sts) - 1)

\* list.remove(x): without the first element equal to x
RECURSIVE Remove(_, _)
Remove(sts, x) ==
    IF sts = <<>> THEN <<>>
    ELSE IF Head(sts) = x THEN Tail(sts)
    ELSE <<Head(sts)>> \o Remove(Tail(sts), x)

\* ---- Prompts ----------------------------------------------------------------
\* prompt_nonempty(label): asks until a reply is non-empty after strip().
\* replies: what the user types at this prompt, in order; when they run
\* out, the input has ended (EOFError).
RECURSIVE prompt_nonempty(_)
prompt_nonempty(replies) ==
    IF replies = <<>> THEN EOF
    ELSE IF Raises(Head(replies)) THEN Head(replies)
    ELSE IF Strip(Head(replies)) # <<>> THEN Strip(Head(replies))
    ELSE prompt_nonempty(Tail(replies))

\* prompt_optional(label)
prompt_optional(reply) == Input(reply)

\* ---- What the user may type ---------------------------------------------------
ChoiceReplies ==
    { <<"1">>, <<"2">>, <<"3">>, <<"4">>, <<"5">>, <<"6">>, <<" ", "6", " ">>,
      <<"7">>, <<>>, EOF, INTR }

RollStreams ==
    { << <<"1">> >>, << <<>>, <<" ", "2", " ">> >>, << <<"3">> >>,
      << <<" ">>, INTR >>, << >> }

NameStreams == { << <<" ">>, <<"a", " ">> >>, << INTR >> }

GradeStreams == { << <<>>, <<" ", "a">> >>, << <<>> >> }

AgeReplies == { <<" ">>, <<"5">>, EOF }

NewNameReplies == { <<" ">>, <<"b", " ">>, EOF }

NewGradeReplies == { <<>>, <<" ", "a">>, INTR }

NewAgeReplies == { <<>>, <<"5", " ">>, EOF }

ConfirmReplies == { <<"y">>, <<" ", "Y", " ">>, <<"n">>, <<>>, EOF }

PauseReplies == { <<>>, EOF, INTR }

\* ---- What data.json may hold when the program starts -----------------------
Student(roll_no, name, grade, age) ==
    [roll_no |-> roll_no, name |-> name, grade |-> grade, age |-> age]

StudentObject(roll_no, name, grade, age) ==
    JObject(<< <<"roll_no", JString(roll_no)>>, <<"name", JString(name)>>,
               <<"grade", JString(grade)>>, <<"age", JString(age)>> >>)

\* No file, a file that is no JSON, JSON that is no array, and what
\* save_data() writes: an array of student objects.
InitialFiles ==
    { Missing,
      Garbage,
      JString(<<"x">>),
      JObject(<< <<"name", JString(<<"a">>)>> >>),
      JArray(<< >>),
      JArray(<< StudentObject(<<"1">>, <<"a">>, <<"A">>, <<"5">>) >>),
      JArray(<< StudentObject(<<"2">>, <<"b">>, <<"B">>, <<>>),
                StudentObject(<<"1">>, <<"a">>, <<"A">>, <<"5">>) >>) }

\* Arrays this program never wrote: an element that is no object, an object
\* that is no student.
ForeignFiles ==
    { JArray(<< StudentObject(<<"1">>, <<"a">>, <<"A">>, <<"5">>), JString(<<"x">>) >>),
      JArray(<< JObject(<< <<"roll_no", JString(<<"1">>)>> >>) >>) }

\* ---- main() -------------------------------------------------------------------
Did(op, result, args, saves, wrote) ==
    [op |-> op, result |-> result, args |-> args, saves |-> saves, wrote |-> wrote]

\* students = [] (line 30), before main() runs
InitWith(files) ==
    /\ students = <<>>
    /\ file \in files
    /\ pc = "start"
    /\ last = Did("none", "none", <<>>, 0, "none")
    /\ failures = 0

Init == InitWith(InitialFiles)

InitAnyFile == InitWith(InitialFiles \cup ForeignFiles)

\* students = load_data()
Load ==
    /\ pc = "start"
    /\ \E readable \in BOOLEAN :
         /\ students' = load_data(file, readable)
         /\ last' = Did("load", IF readable THEN "read" ELSE "oserror", <<>>, 0, "none")
    /\ pc' = "menu"
    /\ UNCHANGED <<file, failures>>

\* The operation returns without having called save_data(); pause() follows.
Returns(op, result, args, sts) ==
    /\ students' = sts
    /\ pc' = "pause"
    /\ last' = Did(op, result, args, 0, "none")
    /\ UNCHANGED <<file, failures>>

\* Variant: OSError is not caught in save_data(), and ends the process.
SavesOrDies(op, result, args, sts, to) ==
    \E w \in WriteOutcomes :
        /\ w # "ok" => failures < MaxFailures
        /\ students' = sts
        /\ file' = save_data(file, sts, w)
        /\ failures' = IF w = "ok" THEN 0 ELSE failures + 1
        /\ pc' = IF w = "ok" THEN to ELSE "crashed"
        /\ last' = Did(op, result, args, 1, w)

\* save_data() on the list sts, after which main() is at `to`.
Saves(op, result, args, sts, to) ==
    \E w \in WriteOutcomes :
        /\ w # "ok" => failures < MaxFailures
        /\ students' = sts
        /\ file' = save_data(file, sts, w)
        /\ failures' = IF w = "ok" THEN 0 ELSE failures + 1
        /\ pc' = to
        /\ last' = Did(op, result, args, 1, w)

\* Variant: the operation changes the list and returns without save_data().
CommitsUnsaved(op, result, args, sts) == Returns(op, result, args, sts)

\* The operation changed the list to sts and called save_data(); pause() follows.
Commits(op, result, args, sts) == Saves(op, result, args, sts, "pause")

\* Variant: the except clauses break without save_data().
InterruptedUnsaved(op, args) ==
    /\ pc' = "done"
    /\ last' = Did(op, "interrupted", args, 0, "none")
    /\ UNCHANGED <<students, file, failures>>

\* except KeyboardInterrupt / except EOFError: save_data(), break
Interrupted(op, args) == Saves(op, "interrupted", args, students, "done")

\* Any other exception leaves main(): the process ends with a traceback.
Crashes(op, args) ==
    /\ pc' = "crashed"
    /\ last' = Did(op, "crashed", args, 0, "none")
    /\ UNCHANGED <<students, file, failures>>

\* Variant: the result of the search is never taken as a match.
FoundNever(hit) == FALSE

\* `if search_by_roll(roll)` / `if not s`: a dict that has a key is true
Found(hit) == hit.at # 0

Chosen(option) == \E c \in ChoiceReplies : Input(c) = option

\* Variant: the grade is stored as typed.
NewStudentAsTyped(roll, name, grade, age) == Student(roll, name, grade, age)

\* The dict add_student() appends.
NewStudent(roll, name, grade, age) == Student(roll, name, Upper(grade), age)

\* choice "1": add_student()
AddStudent ==
    /\ pc = "menu"
    /\ Chosen(<<"1">>)
    /\ \E rollS \in RollStreams :
        LET roll == prompt_nonempty(rollS)
            hit == search_by_roll(students, roll)
        IN  IF Raises(roll) THEN Interrupted("add", <<>>)
            ELSE IF hit.raised THEN Crashes("add", <<roll>>)
            ELSE IF Found(hit) THEN Returns("add", "duplicate", <<roll>>, students)
            ELSE \E nameS \in NameStreams :
                LET name == prompt_nonempty(nameS)
                IN  IF Raises(name) THEN Interrupted("add", <<roll>>)
                    ELSE \E gradeS \in GradeStreams :
                        LET grade == prompt_nonempty(gradeS)
                        IN  IF Raises(grade) THEN Interrupted("add", <<roll, name>>)
                            ELSE IF ~validate_grade(grade)
                            THEN Returns("add", "invalid", <<roll, name, grade>>, students)
                            ELSE \E ageR \in AgeReplies :
                                LET age == prompt_optional(ageR)
                                IN  IF Raises(age)
                                    THEN Interrupted("add", <<roll, name, grade>>)
                                    ELSE /\ Len(students) < MaxStudents
                                         /\ Commits("add", "added", <<roll, name, grade, age>>,
                                                    Append(students, NewStudent(roll, name, grade, age)))

\* print_table(records): s.get(...) raises AttributeError on an element that
\* is no dict.
print_table_raises(records) == \E i \in 1..Len(records) : IsStr(records[i])

\* choice "2": view_students()
ViewStudents ==
    /\ pc = "menu"
    /\ Chosen(<<"2">>)
    /\ IF print_table_raises(students)
       THEN Crashes("view", <<>>)
       ELSE Returns("view", "shown", <<>>, students)

\* choice "3": search_student()
SearchStudent ==
    /\ pc = "menu"
    /\ Chosen(<<"3">>)
    /\ \E rollS \in RollStreams :
        LET roll == prompt_nonempty(rollS)
            hit == search_by_roll(students, roll)
        IN  IF Raises(roll) THEN Interrupted("search", <<>>)
            ELSE IF hit.raised THEN Crashes("search", <<roll>>)
            ELSE IF Found(hit) THEN Returns("search", "found", <<roll>>, students)
            ELSE Returns("search", "not_found", <<roll>>, students)

\* update_student(), lines 167-168: the name, when one was typed
WithName(s, new_name) == IF new_name # <<>> THEN SetKey(s, "name", new_name) ELSE s

\* update_student(), lines 169-173: the grade, when one was typed
WithGrade(s, new_grade) ==
    IF new_grade # <<>> THEN SetKey(s, "grade", Upper(new_grade)) ELSE s

\* update_student(), lines 174-175: `if new_age or new_age == ""` is true of
\* every reply, the blank one included
WithAge(s, new_age) ==
    IF new_age # <<>> \/ new_age = <<>> THEN SetKey(s, "age", new_age) ELSE s

\* choice "4": update_student()
UpdateStudent ==
    /\ pc = "menu"
    /\ Chosen(<<"4">>)
    /\ \E rollS \in RollStreams :
        LET roll == prompt_nonempty(rollS)
            hit == search_by_roll(students, roll)
            s == students[hit.at]
        IN  IF Raises(roll) THEN Interrupted("update", <<>>)
            ELSE IF hit.raised THEN Crashes("update", <<roll>>)
            ELSE IF ~Found(hit) THEN Returns("update", "not_found", <<roll>>, students)
            ELSE IF "name" \notin Keys(s) THEN Crashes("update", <<roll>>)
            ELSE \E nameR \in NewNameReplies :
                LET new_name == Input(nameR)
                IN  IF Raises(new_name) THEN Interrupted("update", <<roll>>)
                    ELSE IF "grade" \notin Keys(s) THEN Crashes("update", <<roll, new_name>>)
                    ELSE \E gradeR \in NewGradeReplies :
                        LET new_grade == Input(gradeR)
                        IN  IF Raises(new_grade)
                            THEN Interrupted("update", <<roll, new_name>>)
                            ELSE \E ageR \in NewAgeReplies :
                                LET new_age == Input(ageR)
                                    args == <<roll, new_name, new_grade, new_age>>
                                    named == WithName(s, new_name)
                                IN  IF Raises(new_age)
                                    THEN Interrupted("update", <<roll, new_name, new_grade>>)
                                    ELSE IF new_grade # <<>> /\ ~validate_grade(new_grade)
                                    THEN Returns("update", "invalid", args,
                                                 [students EXCEPT ![hit.at] = named])
                                    ELSE Commits("update", "updated", args,
                                                 [students EXCEPT ![hit.at] =
                                                     WithAge(WithGrade(named, new_grade), new_age)])

\* Variant: every answer but "n" deletes.
ConfirmedUnlessNo(reply) == Lower(Strip(reply)) # <<"n">>

\* delete_student(), lines 189-190: the answer that deletes
Confirmed(reply) == Lower(Strip(reply)) = <<"y">>

\* choice "5": delete_student()
DeleteStudent ==
    /\ pc = "menu"
    /\ Chosen(<<"5">>)
    /\ \E rollS \in RollStreams :
        LET roll == prompt_nonempty(rollS)
            hit == search_by_roll(students, roll)
            s == students[hit.at]
        IN  IF Raises(roll) THEN Interrupted("delete", <<>>)
            ELSE IF hit.raised THEN Crashes("delete", <<roll>>)
            ELSE IF ~Found(hit) THEN Returns("delete", "not_found", <<roll>>, students)
            ELSE IF "name" \notin Keys(s) THEN Crashes("delete", <<roll>>)
            ELSE \E reply \in ConfirmReplies :
                IF Raises(reply) THEN Interrupted("delete", <<roll>>)
                ELSE IF Confirmed(reply)
                THEN Commits("delete", "deleted", <<roll, reply>>, Remove(students, s))
                ELSE Returns("delete", "cancelled", <<roll, reply>>, students)

\* choice "6": save_data(), break
Exit ==
    /\ pc = "menu"
    /\ Chosen(<<"6">>)
    /\ Saves("exit", "exited", <<>>, students, "done")

\* any other choice: the menu is shown again, without pause()
InvalidChoice ==
    /\ pc = "menu"
    /\ \E c \in ChoiceReplies :
        /\ ~Raises(c)
        /\ Input(c) \notin {<<"1">>, <<"2">>, <<"3">>, <<"4">>, <<"5">>, <<"6">>}
    /\ UNCHANGED vars

\* EOFError or KeyboardInterrupt at "Choose an option (1-6): "
MenuInterrupted ==
    /\ pc = "menu"
    /\ \E c \in ChoiceReplies : Raises(c)
    /\ Interrupted("menu", <<>>)

\* pause(), after choices 1 to 5
Pause ==
    /\ pc = "pause"
    /\ \E reply \in PauseReplies :
        IF Raises(reply)
        THEN Interrupted("pause", <<>>)
        ELSE /\ pc' = "menu"
             /\ last' = Did("pause", "continued", <<>>, 0, "none")
             /\ UNCHANGED <<students, file, failures>>

Next ==
    \/ Load
    \/ AddStudent
    \/ ViewStudents
    \/ SearchStudent
    \/ UpdateStudent
    \/ DeleteStudent
    \/ Exit
    \/ InvalidChoice
    \/ MenuInterrupted
    \/ Pause

Spec == Init /\ [][Next]_vars

\* The same program, started on any of the files.
SpecAnyFile == InitAnyFile /\ [][Next]_vars

\* ---- Properties ---------------------------------------------------------------
\* The operations that change the list.
Mutating == {"added", "updated", "deleted"}

\* Some element of sts has this roll_no.
HasRoll(sts, roll) ==
    \E i \in 1..Len(sts) : "roll_no" \in Keys(sts[i]) /\ sts[i].roll_no = roll

\* The position of the first element of sts with this roll_no.
FirstWith(sts, roll) ==
    CHOOSE i \in 1..Len(sts) :
        /\ sts[i].roll_no = roll
        /\ \A j \in 1..(i - 1) : sts[j].roll_no # roll

\* sts without its i-th element, the others in their order.
Without(sts, i) == [j \in 1..(Len(sts) - 1) |-> IF j < i THEN sts[j] ELSE sts[j + 1]]

\* search_by_roll returned None.
None == [raised |-> FALSE, at |-> 0]

\* The data file holds exactly the list sts: reading it back gives sts.
FileMirrors(f, sts) == f.t = "array" /\ load_data(f, TRUE) = sts

\* C1: no two records of `students` share a roll_no, whatever adds, updates
\* and deletes (accepted, rejected, cancelled or interrupted) were made.
C1_UniqueRollNo ==
    \A i, j \in 1..Len(students) :
        i # j => students[i].roll_no # students[j].roll_no

C1_Witness ==
    /\ last.op = "add" /\ last.result = "added"
    /\ Len(students) = 2
    /\ students[1].name = <<"b">>

\* C2 (as claimed): an update with name, grade and age all blank leaves the
\* record unchanged in every field; an update with only a name changes the
\* name and leaves roll_no, grade and age as they were.
C2_UpdateKeepsBlankFields ==
    [][ (last'.op = "update" /\ last'.result = "updated") =>
          LET a == last'.args
              i == FirstWith(students, a[1])
          IN  /\ (a[2] = <<>> /\ a[3] = <<>> /\ a[4] = <<>>) => students' = students
              /\ (a[2] # <<>> /\ a[3] = <<>> /\ a[4] = <<>>) =>
                     students' = [students EXCEPT ![i].name = a[2]] ]_vars

\* C3: an add, update or confirmed delete that changes the list calls
\* save_data() before it returns, and when that write succeeds the data file
\* holds the whole list, in order; no step after load changes the list
\* without a save.
C3_FlushedAfterMutation ==
    [][ pc # "start" =>
          /\ students' # students => last'.saves >= 1
          /\ (last'.result \in Mutating /\ last'.wrote = "ok") =>
                 FileMirrors(file', students') ]_vars

C3_Witness ==
    /\ pc = "pause"
    /\ last.op = "delete" /\ last.result = "deleted" /\ last.wrote = "ok"
    /\ Len(students) = 1
    /\ FileMirrors(file, students)

\* C4: when the menu loop has ended (choice 6, KeyboardInterrupt or EOFError
\* at any prompt), the step that ended it called save_data() exactly once,
\* and if that write succeeded the data file holds the list as it is then.
C4_FinalSave ==
    pc = "done" =>
        /\ last.saves = 1
        /\ last.wrote = "ok" => FileMirrors(file, students)

C4_Witness ==
    /\ pc = "done"
    /\ last.op = "update" /\ last.result = "interrupted" /\ Len(last.args) = 3
    /\ last.wrote = "ok"
    /\ Len(students) = 2

\* C5 (as claimed): after add_student with the values of a record r whose
\* roll_no is new, search_by_roll(r.roll_no) returns a record equal to r in
\* all four fields, and the list is the old list with r appended.
C5_AddThenSearchEqual ==
    [][ (last'.op = "add" /\ last'.result = "added") =>
          LET a == last'.args
              r == Student(a[1], a[2], a[3], a[4])
              hit == search_by_roll(students', a[1])
          IN  /\ ~hit.raised /\ hit.at # 0
              /\ students'[hit.at] = r
              /\ students' = Append(students, r) ]_vars

\* C5 (amended): after add_student with the values of a record r (as read at
\* the prompts, trimmed) whose roll_no is new, search_by_roll(r.roll_no)
\* returns a record with r's roll_no, name and age and with r's grade in
\* upper case, and the list is the old list with that record appended.
C5_AddThenSearchUpperGrade ==
    [][ (last'.op = "add" /\ last'.result = "added") =>
          LET a == last'.args
              r == [roll_no |-> a[1], name |-> a[2], grade |-> Upper(a[3]), age |-> a[4]]
              hit == search_by_roll(students', a[1])
          IN  /\ ~HasRoll(students, a[1])
              /\ ~hit.raised /\ hit.at = Len(students')
              /\ students'[hit.at] = r
              /\ Len(students') = Len(students) + 1
              /\ students' = Append(students, r) ]_vars

C5_Witness ==
    /\ last.op = "add" /\ last.result = "added"
    /\ last.args = << <<"2">>, <<"a">>, <<"a">>, <<"5">> >>
    /\ Len(students) = 2
    /\ students[2].grade = <<"A">>

\* C6: an add whose roll_no is that of a record in the list is rejected: the
\* list is as it was, save_data() is not called and the data file is as it was.
C6_DuplicateRejected ==
    [][ (last'.op = "add" /\ Len(last'.args) >= 1 /\ HasRoll(students, last'.args[1])) =>
          /\ last'.result = "duplicate"
          /\ students' = students
          /\ last'.saves = 0
          /\ file' = file ]_vars

C6_Witness ==
    /\ last.op = "add" /\ last.result = "duplicate"
    /\ Len(students) = 2
    /\ last.args = << students[2].roll_no >>

C8_LoadFallsBack ==
    [][ pc = "start" =>
          /\ file' = file
          /\ students' =
                IF /\ last'.result = "read"
                   /\ file.t = "array"
                   /\ \A i \in 1..Len(file.v) : file.v[i].t = "object"
                THEN [i \in 1..Len(file.v) |-> FromJSON(file.v[i])]
                ELSE <<>> ]_vars

\* C9: a write that fails after an add, update or delete ends nothing: the
\* list holds what the operation did and pause() follows; view, search and
\* pause leave the list as it is, a search of a roll_no in it finds it; and
\* every save that succeeds leaves the data file holding the list.
C9_WriteFailureKeepsMemory ==
    [][ pc # "start" =>
          /\ (last'.saves = 1 /\ last'.wrote # "ok" /\ last'.result \in Mutating) =>
                LET a == last'.args
                    hit == search_by_roll(students', a[1])
                IN  /\ pc' = "pause"
                    /\ last'.result = "added" =>
                           /\ Len(students') = Len(students) + 1
                           /\ hit.at = Len(students')
                           /\ students'[hit.at].name = a[2]
                    /\ last'.result = "deleted" =>
                           /\ Len(students') = Len(students) - 1
                           /\ hit = None
                    /\ last'.result = "updated" =>
                           /\ hit.at # 0
                           /\ a[2] # <<>> => students'[hit.at].name = a[2]
                           /\ a[3] # <<>> => students'[hit.at].grade = Upper(a[3])
          /\ last'.op \in {"view", "search", "pause"} => students' = students
          /\ (last'.op = "search" /\ Len(last'.args) = 1) =>
                 (last'.result = "found" <=> HasRoll(students, last'.args[1]))
          /\ last'.wrote = "ok" => FileMirrors(file', students') ]_vars

C9_Witness ==
    /\ pc = "pause"
    /\ last.op = "add" /\ last.result = "added" /\ last.wrote = "write_failed"
    /\ file = Garbage
    /\ Len(students) = 2

\* C10: a delete removes a record only when the roll_no is that of a record
\* and the answer, trimmed and lower-cased, is "y"; with no such record, or
\* any other answer, the list is as it was and save_data() is not called.
\* An update of a roll_no that no record has changes nothing and saves nothing.
C10_DeleteNeedsMatchAndYes ==
    [][ LET a == last'.args
        IN  /\ (last'.op = "delete" /\ students' # students) =>
                   /\ Len(a) = 2
                   /\ HasRoll(students, a[1])
                   /\ Lower(Strip(a[2])) = <<"y">>
            /\ (/\ last'.op = "delete"
                /\ Len(a) >= 1
                /\ \/ ~HasRoll(students, a[1])
                   \/ Len(a) = 2 /\ Lower(Strip(a[2])) # <<"y">>) =>
                   /\ students' = students
                   /\ last'.saves = 0
                   /\ file' = file
            /\ (last'.op = "update" /\ Len(a) >= 1 /\ ~HasRoll(students, a[1])) =>
                   /\ students' = students
                   /\ last'.saves = 0
                   /\ file' = file ]_vars

C10_Witness ==
    /\ last.op = "delete" /\ last.result = "cancelled"
    /\ last.args = << <<"1">>, <<>> >>
    /\ Len(students) = 2

====
